---------------------------- MODULE Spec2Model ----------------------------
(***************************************************************************)
(* Multi-signature treasury (packages/contracts/src/treasury): the         *)
(* transfer-authorization state machine, the ledger and the statistics     *)
(* aggregate.  Every contract entry point is one atomic action; a panic    *)
(* aborts the invocation and the host discards its storage writes, so a    *)
(* failing call leaves the contract state as it was.                       *)
(***************************************************************************)
EXTENDS Integers, Sequences, FiniteSets, TLC

VARIABLES pending_transfers, stats, owner, authorized_admins, fund_allocation,
          emergency_shutdown, max_transfer_amount, emergency_cooldown,
          now, executed_log,
          TREASURY, instance, sequence

contractVars == <<pending_transfers, stats, owner, authorized_admins,
                  fund_allocation, emergency_shutdown, max_transfer_amount,
                  emergency_cooldown>>

vars == <<pending_transfers, stats, owner, authorized_admins, fund_allocation,
          emergency_shutdown, max_transfer_amount, emergency_cooldown,
          now, executed_log, TREASURY, instance, sequence>>

\* the instance storage of the two simplified treasuries
\* (treasury/contract_simple.rs and treasury_simple.rs) and the ledger
\* sequence number that treasury_simple.rs reads
simpleVars == <<TREASURY, instance, sequence>>

---------------------------------------------------------------------------
(* Bounds of the model *)

\* ledger clock: the number of Tick steps
MaxTicks == 2

\* deposits accepted by add_funds
MaxFunds == 1

\* executions recorded in executed_log
MaxExecuted == 1

\* administrators of the largest treasury of the quorum specification
MaxAdmins == 5

\* the ledger specification holds at most SmallAmount + MaxSurplus units
MaxSurplus == 3

\* treasury_simple.rs: ledgers closed after the first one
MaxLedgers == 1

\* treasury_simple.rs: value of stats.pending_transfers up to which
\* create_transfer is called
MaxPending == 2

\* treasury_simple.rs: value of stats.completed_transfers up to which
\* execute_transfer is called
MaxCompleted == 2

---------------------------------------------------------------------------
(* Program constants *)

ZeroAddress == 0

DefaultMaxTransferAmount == 10000

DefaultEmergencyCooldown == 3600

DefaultFundAllocation ==
    [insurance_percentage |-> 60, operational_percentage |-> 30,
     emergency_percentage |-> 10]

---------------------------------------------------------------------------
(* Input domains *)

Accounts == {1, 2, 3}

TransferIds == {"t1"}

\* a transfer within the default ceiling, and one just above it
SmallAmount == DefaultMaxTransferAmount \div 200

LargeAmount == DefaultMaxTransferAmount + 1

TickStep == DefaultEmergencyCooldown \div 2

\* Option<T> is a sequence of length 0 (None) or 1 (Some)
None == <<>>

Some(x) == <<x>>

Recipient == Cardinality(Accounts) + 1

MkParams(to, amount, required, emergency) ==
    [to |-> to, amount |-> amount, reason |-> "reason",
     required_approvals |-> required, is_emergency |-> emergency]

\* the TransferParams values the callers try
ParamsSet ==
    { MkParams(Recipient, a, r, e) :
        a \in {SmallAmount, LargeAmount}, r \in {None, Some(2)},
        e \in BOOLEAN }
    \cup { MkParams(Recipient, 0, None, FALSE),
           MkParams(ZeroAddress, SmallAmount, None, FALSE) }

CeilingValues == {DefaultMaxTransferAmount, 2 * DefaultMaxTransferAmount}

CooldownValues == {0, DefaultEmergencyCooldown}

AllocationValues ==
    { DefaultFundAllocation,
      [insurance_percentage |-> 34, operational_percentage |-> 33,
       emergency_percentage |-> 33],
      [insurance_percentage |-> 50, operational_percentage |-> 50,
       emergency_percentage |-> 50] }

FundAmounts == {0, LargeAmount, -LargeAmount}

\* initial_admins of the constructor: the owner with the next accounts, or
\* a list without the owner (one representative per size)
AdminLists ==
    { [i \in 1 .. k |-> i] : k \in 0 .. Cardinality(Accounts) }
    \cup { [i \in 1 .. k |-> i + 1] : k \in 1 .. Cardinality(Accounts) - 1 }

---------------------------------------------------------------------------
(* Helpers on sequences and maps *)

Contains(seq, x) == \E i \in 1 .. Len(seq) : seq[i] = x

MapRemove(m, k) == [x \in (DOMAIN m) \ {k} |-> m[x]]

MapSet(m, k, v) == [x \in (DOMAIN m) \cup {k} |-> IF x = k THEN v ELSE m[x]]

\* i128 division truncates toward zero
Div(a, b) == IF a >= 0 THEN a \div b ELSE -((-a) \div b)

---------------------------------------------------------------------------
(* treasury/types.rs: PendingTransfer *)

PendingTransfer_new(transfer_id, params, required_approvals, t) ==
    [transfer_id |-> transfer_id, to |-> params.to, amount |-> params.amount,
     reason |-> params.reason, approvals |-> 0,
     required_approvals |-> required_approvals, created_at |-> t,
     executed_at |-> None, status |-> "Pending", approvers |-> <<>>,
     is_emergency |-> params.is_emergency]

\* mutant: the approver is recorded but not counted
add_approval_no_count(transfer, approver) ==
    IF ~Contains(transfer.approvers, approver)
    THEN [transfer EXCEPT !.approvers = Append(@, approver)]
    ELSE transfer

add_approval(transfer, approver) ==
    IF ~Contains(transfer.approvers, approver)
    THEN [transfer EXCEPT !.approvers = Append(@, approver),
                          !.approvals = @ + 1]
    ELSE transfer

has_sufficient_approvals(transfer) ==
    transfer.approvals >= transfer.required_approvals

has_approved(transfer, approver) == Contains(transfer.approvers, approver)

mark_as_approved(transfer) == [transfer EXCEPT !.status = "Approved"]

\* mutant: the execution is not stamped
mark_as_executed_no_stamp(transfer, t) == [transfer EXCEPT !.status = "Executed"]

mark_as_executed(transfer, t) ==
    [transfer EXCEPT !.status = "Executed", !.executed_at = Some(t)]

mark_as_rejected(transfer) == [transfer EXCEPT !.status = "Rejected"]

cancel(transfer) == [transfer EXCEPT !.status = "Cancelled"]

is_pending(transfer) == transfer.status = "Pending"

can_be_executed(transfer) ==
    transfer.status = "Approved" /\ has_sufficient_approvals(transfer)

\* mutant: the age is counted from the start of the ledger clock
age_since_epoch(transfer, t) == t

age(transfer, t) == t - transfer.created_at

is_emergency_transfer(transfer) == transfer.is_emergency

---------------------------------------------------------------------------
(* treasury/types.rs: TreasuryStats *)

TreasuryStats_new ==
    [total_balance |-> 0, insurance_fund_balance |-> 0,
     operational_fund_balance |-> 0, pending_transfers |-> 0,
     executed_transfers |-> 0, total_transferred |-> 0,
     emergency_fund_balance |-> 0]

\* mutant: the deposit replaces the balance
stats_add_funds_overwrite(s, amount) == [s EXCEPT !.total_balance = amount]

stats_add_funds(s, amount) == [s EXCEPT !.total_balance = @ + amount]

transfer_funds(s, amount) == [s EXCEPT !.total_transferred = @ + amount]

increment_pending_transfers(s) == [s EXCEPT !.pending_transfers = @ + 1]

decrement_pending_transfers(s) ==
    IF s.pending_transfers > 0
    THEN [s EXCEPT !.pending_transfers = @ - 1]
    ELSE s

increment_executed_transfers(s) == [s EXCEPT !.executed_transfers = @ + 1]

\* mutant: the shares are rounded up
rebalance_funds_round_up(s, allocation) ==
    [s EXCEPT
       !.insurance_fund_balance =
           Div(s.total_balance * allocation.insurance_percentage + 99, 100),
       !.operational_fund_balance =
           Div(s.total_balance * allocation.operational_percentage + 99, 100),
       !.emergency_fund_balance =
           Div(s.total_balance * allocation.emergency_percentage + 99, 100)]

rebalance_funds(s, allocation) ==
    [s EXCEPT
       !.insurance_fund_balance =
           Div(s.total_balance * allocation.insurance_percentage, 100),
       !.operational_fund_balance =
           Div(s.total_balance * allocation.operational_percentage, 100),
       !.emergency_fund_balance =
           Div(s.total_balance * allocation.emergency_percentage, 100)]

---------------------------------------------------------------------------
(* treasury/contract.rs: the contract state as one value, and the outcome  *)
(* of an invocation                                                        *)

Contract ==
    [pending_transfers |-> pending_transfers, stats |-> stats,
     owner |-> owner, authorized_admins |-> authorized_admins,
     fund_allocation |-> fund_allocation,
     emergency_shutdown |-> emergency_shutdown,
     max_transfer_amount |-> max_transfer_amount,
     emergency_cooldown |-> emergency_cooldown]

\* the invocation returned: c is the state it committed, done the record it
\* took out of the pending index (executed, rejected or cancelled), attempt
\* the outcome of the execution it chained (if any)
Ok(c) == [err |-> "Ok", c |-> c, done |-> <<>>, attempt |-> None]

\* the invocation panicked: c is the state at its start
Fail(e, c) == [err |-> e, c |-> c, done |-> <<>>, attempt |-> None]

\* mutant: an administrator is let in as the owner is
require_owner_or_admin(c, caller) ==
    caller = c.owner \/ Contains(c.authorized_admins, caller)

require_owner(c, caller) == caller = c.owner

\* mutant: no administrator is let in while the shutdown flag is set
require_admin_unless_shutdown(c, caller) ==
    Contains(c.authorized_admins, caller) /\ ~c.emergency_shutdown

\* mutant: the owner is let in without being an administrator
require_admin_or_owner(c, caller) ==
    Contains(c.authorized_admins, caller) \/ caller = c.owner

require_admin(c, caller) == Contains(c.authorized_admins, caller)

\* mutant: the shutdown flag is never read as set
is_emergency_shutdown_ignored(c) == FALSE

is_emergency_shutdown(c) == c.emergency_shutdown

get_treasury_balance(c) == c.stats.total_balance

get_transfer_submitter(c, transfer_id) == c.owner

validate_transfer_params(c, params) ==
    IF params.amount <= 0
    THEN "panic: Transfer amount must be positive"
    ELSE IF params.amount > c.max_transfer_amount /\ ~params.is_emergency
    THEN "panic: Transfer amount exceeds maximum limit"
    ELSE IF params.to = ZeroAddress
    THEN "panic: Invalid recipient address"
    ELSE "Ok"

\* mutant: a regular transfer asks for a majority of the administrators
get_default_required_approvals_majority(c, params) ==
    (Len(c.authorized_admins) + 1) \div 2

\* mutant: an emergency transfer without override asks for every
\* administrator before the halving of the submission
get_default_required_approvals_all(c, params) == Len(c.authorized_admins)

get_default_required_approvals(c, params) ==
    IF params.is_emergency
    THEN (Len(c.authorized_admins) + 1) \div 2
    ELSE Len(c.authorized_admins)

\* mutant: the owner's submission is auto-approved whatever its amount
auto_approve_any_amount(c, admin, params) == admin = c.owner

\* the auto-approval of submit_transfer
auto_approve(c, admin, params) ==
    admin = c.owner /\ params.amount <= c.max_transfer_amount

\* mutant: the failure of the chained call is reported, and the writes made
\* before it are kept
Propagate_keeps_writes(c0, r) == [r EXCEPT !.attempt = Some(r.err)]

\* a call made inside an invocation that started in state c0: its panic is
\* the invocation's panic
Propagate(c0, r) ==
    IF r.err = "Ok"
    THEN [r EXCEPT !.attempt = Some(r.err)]
    ELSE [Fail(r.err, c0) EXCEPT !.attempt = Some(r.err)]

\* mutant: execute_transfer without the check of can_be_executed
execute_transfer_unchecked(c, admin, transfer_id, t) ==
    IF ~require_admin(c, admin) THEN Fail("Unauthorized", c)
    ELSE IF transfer_id \notin DOMAIN c.pending_transfers
    THEN Fail("panic: Transfer not found", c)
    ELSE LET transfer == c.pending_transfers[transfer_id] IN
      IF ~is_emergency_transfer(transfer)
         /\ age(transfer, t) < c.emergency_cooldown
      THEN Fail("panic: Transfer is within cooldown period", c)
      ELSE IF get_treasury_balance(c) < transfer.amount
      THEN Fail("InsufficientBalance", c)
      ELSE LET executed == mark_as_executed(transfer, t)
               s1 == decrement_pending_transfers(c.stats)
               s2 == increment_executed_transfers(s1)
               s3 == transfer_funds(s2, executed.amount)
           IN [Ok([c EXCEPT !.stats = s3,
                     !.pending_transfers = MapRemove(@, transfer_id)])
                 EXCEPT !.done = <<executed>>]

execute_transfer(c, admin, transfer_id, t) ==
    IF ~require_admin(c, admin) THEN Fail("Unauthorized", c)
    ELSE IF transfer_id \notin DOMAIN c.pending_transfers
    THEN Fail("panic: Transfer not found", c)
    ELSE LET transfer == c.pending_transfers[transfer_id] IN
      IF ~can_be_executed(transfer) THEN Fail("TransferNotAuthorized", c)
      ELSE IF ~is_emergency_transfer(transfer)
              /\ age(transfer, t) < c.emergency_cooldown
      THEN Fail("panic: Transfer is within cooldown period", c)
      ELSE IF get_treasury_balance(c) < transfer.amount
      THEN Fail("InsufficientBalance", c)
      ELSE LET executed == mark_as_executed(transfer, t)
               s1 == decrement_pending_transfers(c.stats)
               s2 == increment_executed_transfers(s1)
               s3 == transfer_funds(s2, executed.amount)
           IN [Ok([c EXCEPT !.stats = s3,
                     !.pending_transfers = MapRemove(@, transfer_id)])
                 EXCEPT !.done = <<executed>>]

submit_transfer(c, admin, transfer_id, params, t) ==
    IF ~require_admin(c, admin) THEN Fail("Unauthorized", c)
    ELSE IF is_emergency_shutdown(c) /\ ~params.is_emergency
    THEN Fail("InvalidState", c)
    ELSE IF transfer_id \in DOMAIN c.pending_transfers
    THEN Fail("InvalidInput", c)
    ELSE IF validate_transfer_params(c, params) # "Ok"
    THEN Fail(validate_transfer_params(c, params), c)
    ELSE LET required_approvals ==
                 IF params.required_approvals = None
                 THEN get_default_required_approvals(c, params)
                 ELSE params.required_approvals[1]
             emergency_adjusted_approvals ==
                 IF params.is_emergency
                 THEN (required_approvals + 1) \div 2
                 ELSE required_approvals
             created == PendingTransfer_new(transfer_id, params,
                            emergency_adjusted_approvals, t)
             transfer ==
                 IF auto_approve(c, admin, params)
                 THEN mark_as_approved(add_approval(created, admin))
                 ELSE created
             c1 == [c EXCEPT
                      !.pending_transfers = MapSet(@, transfer_id, transfer),
                      !.stats = increment_pending_transfers(@)]
         IN IF can_be_executed(transfer)
            THEN Propagate(c, execute_transfer(c1, admin, transfer_id, t))
            ELSE Ok(c1)

\* mutant: approve_transfer without the has_approved check
approve_transfer_no_duplicate_check(c, admin, transfer_id, t) ==
    IF ~require_admin(c, admin) THEN Fail("Unauthorized", c)
    ELSE IF transfer_id \notin DOMAIN c.pending_transfers
    THEN Fail("panic: Transfer not found", c)
    ELSE LET found == c.pending_transfers[transfer_id] IN
      IF ~is_pending(found) THEN Fail("InvalidState", c)
      ELSE LET transfer == add_approval(found, admin)
               c1 == [c EXCEPT
                        !.pending_transfers = MapSet(@, transfer_id, transfer),
                        !.stats = IF has_sufficient_approvals(transfer)
                                  THEN decrement_pending_transfers(@)
                                  ELSE @]
           IN IF can_be_executed(transfer)
              THEN Propagate(c, execute_transfer(c1, admin, transfer_id, t))
              ELSE Ok(c1)

\* the chained call passes (admin, transfer_id), the parameters of
\* execute_transfer, in this order
approve_transfer(c, admin, transfer_id, t) ==
    IF ~require_admin(c, admin) THEN Fail("Unauthorized", c)
    ELSE IF transfer_id \notin DOMAIN c.pending_transfers
    THEN Fail("panic: Transfer not found", c)
    ELSE LET found == c.pending_transfers[transfer_id] IN
      IF ~is_pending(found) THEN Fail("InvalidState", c)
      ELSE IF has_approved(found, admin)
      THEN Fail("TransferAlreadyAuthorized", c)
      ELSE LET transfer == add_approval(found, admin)
               c1 == [c EXCEPT
                        !.pending_transfers = MapSet(@, transfer_id, transfer),
                        !.stats = IF has_sufficient_approvals(transfer)
                                  THEN decrement_pending_transfers(@)
                                  ELSE @]
           IN IF can_be_executed(transfer)
              THEN Propagate(c, execute_transfer(c1, admin, transfer_id, t))
              ELSE Ok(c1)

reject_transfer(c, admin, transfer_id) ==
    IF ~require_admin(c, admin) THEN Fail("Unauthorized", c)
    ELSE IF transfer_id \notin DOMAIN c.pending_transfers
    THEN Fail("panic: Transfer not found", c)
    ELSE IF ~is_pending(c.pending_transfers[transfer_id])
    THEN Fail("InvalidState", c)
    ELSE [Ok([c EXCEPT !.stats = decrement_pending_transfers(@),
                       !.pending_transfers = MapRemove(@, transfer_id)])
            EXCEPT !.done =
                <<mark_as_rejected(c.pending_transfers[transfer_id])>>]

cancel_transfer(c, admin, transfer_id) ==
    IF ~require_admin(c, admin) THEN Fail("Unauthorized", c)
    ELSE IF transfer_id \notin DOMAIN c.pending_transfers
    THEN Fail("panic: Transfer not found", c)
    ELSE IF ~is_pending(c.pending_transfers[transfer_id])
    THEN Fail("InvalidState", c)
    ELSE IF admin # get_transfer_submitter(c, transfer_id) /\ admin # c.owner
    THEN Fail("Unauthorized", c)
    ELSE [Ok([c EXCEPT !.stats = decrement_pending_transfers(@),
                       !.pending_transfers = MapRemove(@, transfer_id)])
            EXCEPT !.done = <<cancel(c.pending_transfers[transfer_id])>>]

\* mutant: add_funds without the rebalance of the sub-funds
add_funds_no_rebalance(c, from, amount) ==
    IF amount <= 0 THEN Fail("panic: Amount must be positive", c)
    ELSE Ok([c EXCEPT !.stats = stats_add_funds(@, amount)])

\* mutant: add_funds without the check of the amount
add_funds_no_amount_check(c, from, amount) ==
    Ok([c EXCEPT !.stats =
          rebalance_funds(stats_add_funds(@, amount), c.fund_allocation)])

add_funds(c, from, amount) ==
    IF amount <= 0 THEN Fail("panic: Amount must be positive", c)
    ELSE Ok([c EXCEPT !.stats =
               rebalance_funds(stats_add_funds(@, amount), c.fund_allocation)])

set_emergency_shutdown(c, caller, flag) ==
    IF ~require_owner(c, caller) THEN Fail("Unauthorized", c)
    ELSE Ok([c EXCEPT !.emergency_shutdown = flag])

\* mutant: update_fund_allocation without the check of the sum
update_fund_allocation_unchecked(c, caller, allocation) ==
    IF ~require_owner(c, caller) THEN Fail("Unauthorized", c)
    ELSE Ok([c EXCEPT !.fund_allocation = allocation,
                      !.stats = rebalance_funds(@, allocation)])

update_fund_allocation(c, caller, allocation) ==
    IF ~require_owner(c, caller) THEN Fail("Unauthorized", c)
    ELSE IF allocation.insurance_percentage + allocation.operational_percentage
              + allocation.emergency_percentage # 100
    THEN Fail("panic: Allocation percentages must sum to 100", c)
    ELSE Ok([c EXCEPT !.fund_allocation = allocation,
                      !.stats = rebalance_funds(@, allocation)])

update_max_transfer_amount(c, caller, amount) ==
    IF ~require_owner(c, caller) THEN Fail("Unauthorized", c)
    ELSE Ok([c EXCEPT !.max_transfer_amount = amount])

update_emergency_cooldown(c, caller, cooldown_seconds) ==
    IF ~require_owner(c, caller) THEN Fail("Unauthorized", c)
    ELSE Ok([c EXCEPT !.emergency_cooldown = cooldown_seconds])

---------------------------------------------------------------------------
(* The state machine *)

\* the simplified treasuries are not deployed: nothing is stored under
\* "TREASURY", "transfers" or "stats"
NotDeployed ==
    /\ TREASURY = None
    /\ instance = [transfers |-> None, stats |-> None]
    /\ sequence = 0

Init ==
    /\ pending_transfers = <<>>
    /\ stats = TreasuryStats_new
    /\ owner = 1
    /\ authorized_admins \in AdminLists
    /\ fund_allocation = DefaultFundAllocation
    /\ emergency_shutdown = FALSE
    /\ max_transfer_amount = DefaultMaxTransferAmount
    /\ emergency_cooldown = DefaultEmergencyCooldown
    /\ now = 0
    /\ executed_log = <<>>
    /\ NotDeployed

\* the records an invocation executed
ExecutedRecords(r) == SelectSeq(r.done, LAMBDA t : t.status = "Executed")

\* an invocation ended with outcome r: the state it left is stored, and
\* executed_log keeps the records it executed with the ceiling in force
Invoke(r) ==
    /\ Len(ExecutedRecords(r)) > 0 => Len(executed_log) < MaxExecuted
    /\ pending_transfers' = r.c.pending_transfers
    /\ stats' = r.c.stats
    /\ owner' = r.c.owner
    /\ authorized_admins' = r.c.authorized_admins
    /\ fund_allocation' = r.c.fund_allocation
    /\ emergency_shutdown' = r.c.emergency_shutdown
    /\ max_transfer_amount' = r.c.max_transfer_amount
    /\ emergency_cooldown' = r.c.emergency_cooldown
    /\ executed_log' = executed_log \o
           [i \in 1 .. Len(ExecutedRecords(r)) |->
               [transfer_id |-> ExecutedRecords(r)[i].transfer_id,
                amount |-> ExecutedRecords(r)[i].amount,
                approvers |-> ExecutedRecords(r)[i].approvers,
                ceiling |-> max_transfer_amount]]
    /\ UNCHANGED <<now, simpleVars>>

SubmitTransfer ==
    \E admin \in Accounts, id \in TransferIds, params \in ParamsSet :
        Invoke(submit_transfer(Contract, admin, id, params, now))

ApproveTransfer ==
    \E admin \in Accounts, id \in TransferIds :
        Invoke(approve_transfer(Contract, admin, id, now))

ExecuteTransfer ==
    \E admin \in Accounts, id \in TransferIds :
        Invoke(execute_transfer(Contract, admin, id, now))

RejectTransfer ==
    \E admin \in Accounts, id \in TransferIds :
        Invoke(reject_transfer(Contract, admin, id))

CancelTransfer ==
    \E admin \in Accounts, id \in TransferIds :
        Invoke(cancel_transfer(Contract, admin, id))

AddFunds ==
    \E amount \in FundAmounts :
        /\ stats.total_balance + amount <= MaxFunds * LargeAmount
        /\ Invoke(add_funds(Contract, Recipient, amount))

EmergencyShutdown ==
    \E caller \in Accounts :
        Invoke(set_emergency_shutdown(Contract, caller, TRUE))

DisableEmergencyShutdown ==
    \E caller \in Accounts :
        Invoke(set_emergency_shutdown(Contract, caller, FALSE))

UpdateFundAllocation ==
    \E caller \in Accounts, allocation \in AllocationValues :
        Invoke(update_fund_allocation(Contract, caller, allocation))

UpdateMaxTransferAmount ==
    \E caller \in Accounts, amount \in CeilingValues :
        Invoke(update_max_transfer_amount(Contract, caller, amount))

UpdateEmergencyCooldown ==
    \E caller \in Accounts, cooldown \in CooldownValues :
        Invoke(update_emergency_cooldown(Contract, caller, cooldown))

\* the ledger clock advances between invocations
Tick ==
    /\ now < MaxTicks * TickStep
    /\ now' = now + TickStep
    /\ UNCHANGED <<contractVars, executed_log, simpleVars>>

\* The transfer state machine with the ledger, the clock and the two owner
\* settings that execution reads (ceiling and cooldown).
Next ==
    \/ SubmitTransfer
    \/ ApproveTransfer
    \/ ExecuteTransfer
    \/ RejectTransfer
    \/ CancelTransfer
    \/ AddFunds
    \/ UpdateMaxTransferAmount
    \/ UpdateEmergencyCooldown
    \/ Tick

Spec == Init /\ [][Next]_vars

---------------------------------------------------------------------------
(* The transfer state machine under the emergency shutdown: the owner sets *)
(* and clears the flag between the calls on the records.                   *)

NextShutdown ==
    \/ SubmitTransfer
    \/ ApproveTransfer
    \/ ExecuteTransfer
    \/ RejectTransfer
    \/ CancelTransfer
    \/ AddFunds
    \/ EmergencyShutdown
    \/ DisableEmergencyShutdown

SpecShutdown == Init /\ [][NextShutdown]_vars

---------------------------------------------------------------------------
(* The ledger: deposits of one unit and of one small transfer, every       *)
(* allocation of the percentages tried, and the owner's emergency          *)
(* transfer, the execution that the code completes.                        *)

LedgerAmounts == {0, 1, SmallAmount}

LedgerPercentages == {0, 33, 34, 66, 100}

LedgerAllocations ==
    { [insurance_percentage |-> i, operational_percentage |-> o,
       emergency_percentage |-> e] :
        i \in LedgerPercentages, o \in LedgerPercentages,
        e \in LedgerPercentages }

LedgerAddFunds ==
    \E amount \in LedgerAmounts :
        /\ stats.total_balance + amount <= SmallAmount + MaxSurplus
        /\ Invoke(add_funds(Contract, Recipient, amount))

LedgerUpdateAllocation ==
    \E caller \in Accounts, allocation \in LedgerAllocations :
        Invoke(update_fund_allocation(Contract, caller, allocation))

LedgerExecute ==
    \E id \in TransferIds :
        Invoke(submit_transfer(Contract, owner, id,
                   MkParams(Recipient, SmallAmount, None, TRUE), now))

NextLedger ==
    \/ LedgerAddFunds
    \/ LedgerUpdateAllocation
    \/ LedgerExecute

SpecLedger == Init /\ [][NextLedger]_vars

---------------------------------------------------------------------------
(* Two records side by side: a treasury of the owner and one more          *)
(* administrator, constructed at either of two ledger times, with two      *)
(* transfer ids.                                                           *)

FrameIds == {"t1", "t2"}

FrameParams ==
    { MkParams(Recipient, SmallAmount, None, emergency) :
        emergency \in BOOLEAN }

InitFrame ==
    /\ pending_transfers = <<>>
    /\ stats = TreasuryStats_new
    /\ owner = 1
    /\ authorized_admins = <<1, 2>>
    /\ fund_allocation = DefaultFundAllocation
    /\ emergency_shutdown = FALSE
    /\ max_transfer_amount = DefaultMaxTransferAmount
    /\ emergency_cooldown = DefaultEmergencyCooldown
    /\ now \in {0, TickStep}
    /\ executed_log = <<>>
    /\ NotDeployed

FrameSubmit ==
    \E admin \in Accounts, id \in FrameIds, params \in FrameParams :
        Invoke(submit_transfer(Contract, admin, id, params, now))

FrameApprove ==
    \E admin \in Accounts, id \in FrameIds :
        Invoke(approve_transfer(Contract, admin, id, now))

FrameExecute ==
    \E admin \in Accounts, id \in FrameIds :
        Invoke(execute_transfer(Contract, admin, id, now))

FrameReject ==
    \E admin \in Accounts, id \in FrameIds :
        Invoke(reject_transfer(Contract, admin, id))

FrameCancel ==
    \E admin \in Accounts, id \in FrameIds :
        Invoke(cancel_transfer(Contract, admin, id))

NextFrame ==
    \/ FrameSubmit
    \/ FrameApprove
    \/ FrameExecute
    \/ FrameReject
    \/ FrameCancel
    \/ AddFunds

SpecFrame == InitFrame /\ [][NextFrame]_vars

---------------------------------------------------------------------------
(* The quorum policy: treasuries of one to MaxAdmins administrators, and   *)
(* submissions with every override from 0 to MaxAdmins.                    *)

QuorumAccounts == 1 .. MaxAdmins

\* initial_admins of the constructor: the owner with the next accounts
QuorumAdminLists == { [i \in 1 .. k |-> i] : k \in 1 .. MaxAdmins }

QuorumParams ==
    { MkParams(Recipient, amount, required, emergency) :
        amount \in {SmallAmount, LargeAmount},
        required \in {None} \cup {Some(k) : k \in 0 .. MaxAdmins},
        emergency \in BOOLEAN }

InitQuorum ==
    /\ pending_transfers = <<>>
    /\ stats = TreasuryStats_new
    /\ owner = 1
    /\ authorized_admins \in QuorumAdminLists
    /\ fund_allocation = DefaultFundAllocation
    /\ emergency_shutdown = FALSE
    /\ max_transfer_amount = DefaultMaxTransferAmount
    /\ emergency_cooldown = DefaultEmergencyCooldown
    /\ now = 0
    /\ executed_log = <<>>
    /\ NotDeployed

QuorumSubmit ==
    \E admin \in QuorumAccounts, id \in TransferIds, params \in QuorumParams :
        Invoke(submit_transfer(Contract, admin, id, params, now))

QuorumReject ==
    \E admin \in QuorumAccounts, id \in TransferIds :
        Invoke(reject_transfer(Contract, admin, id))

QuorumApprove ==
    \E admin \in QuorumAccounts, id \in TransferIds :
        Invoke(approve_transfer(Contract, admin, id, now))

NextQuorum ==
    \/ QuorumSubmit
    \/ QuorumApprove
    \/ QuorumReject

SpecQuorum == InitQuorum /\ [][NextQuorum]_vars

---------------------------------------------------------------------------
(* treasury/contract_simple.rs: the treasury that keeps its whole state    *)
(* as one Treasury struct under the instance key "TREASURY".  Every entry  *)
(* point reads the struct, works on the copy it read and, where the code   *)
(* says so, writes the copy back.                                          *)

\* env.current_contract_address(): the address that every entry point of
\* contract_simple.rs takes as its caller
ContractAddress == Recipient + 1

SimpleMaxTransferAmount == 10000

SimpleOk(stored) == [err |-> "Ok", stored |-> stored]

\* a panic: the host discards the writes of the invocation
SimpleFail(e, stored) == [err |-> e, stored |-> stored]

contract_simple_constructor(o, initial_admins) ==
    Some([pending_transfers |-> <<>>,
          authorized_admins |-> initial_admins,
          owner |-> o,
          fund_allocation |-> DefaultFundAllocation,
          emergency_shutdown |-> FALSE,
          max_transfer_amount |-> SimpleMaxTransferAmount,
          total_balance |-> 0])

contract_simple_submit_transfer(stored, transfer_id, to, amount, required_approvals, is_emergency, t) ==
    IF stored = None THEN SimpleFail("Contract not initialized", stored)
    ELSE
    LET contract == stored[1]
        caller == ContractAddress
        transfer == [to |-> to, amount |-> amount, reason |-> "reason",
                     approvals |-> 0,
                     required_approvals |-> required_approvals,
                     created_at |-> t, approvers |-> <<>>,
                     is_emergency |-> is_emergency]
    IN  IF ~Contains(contract.authorized_admins, caller)
        THEN SimpleFail("Unauthorized", stored)
        ELSE IF contract.emergency_shutdown /\ ~is_emergency
        THEN SimpleFail("InvalidState", stored)
        ELSE IF transfer_id \in DOMAIN contract.pending_transfers
        THEN SimpleFail("InvalidInput", stored)
        ELSE IF amount <= 0
        THEN SimpleFail("InvalidInput", stored)
        ELSE IF ~is_emergency /\ amount > contract.max_transfer_amount
        THEN SimpleFail("InvalidInput", stored)
        ELSE SimpleOk(Some([contract EXCEPT !.pending_transfers =
                                MapSet(@, transfer_id, transfer)]))

\* works on the struct its caller passes by reference: the result is the
\* struct as the function leaves it, nothing is written to the storage
contract_simple_execute_transfer_internal(contract, transfer_id) ==
    IF transfer_id \notin DOMAIN contract.pending_transfers
    THEN [err |-> "Transfer not found", contract |-> contract]
    ELSE
    LET transfer == contract.pending_transfers[transfer_id]
    IN  IF transfer.approvals < transfer.required_approvals
        THEN [err |-> "TransferNotAuthorized", contract |-> contract]
        ELSE IF contract.total_balance < transfer.amount
        THEN [err |-> "InsufficientBalance", contract |-> contract]
        ELSE [err |-> "Ok",
              contract |->
                  [contract EXCEPT
                      !.total_balance = @ - transfer.amount,
                      !.pending_transfers = MapRemove(@, transfer_id)]]

\* the branch that executes ends without env.storage().instance().set:
\* the struct that execute_transfer_internal changed is dropped and the
\* storage keeps what it held before the call
contract_simple_approve_transfer(stored, transfer_id) ==
    IF stored = None THEN SimpleFail("Contract not initialized", stored)
    ELSE
    LET contract == stored[1]
        caller == ContractAddress
    IN  IF ~Contains(contract.authorized_admins, caller)
        THEN SimpleFail("Unauthorized", stored)
        ELSE IF transfer_id \notin DOMAIN contract.pending_transfers
        THEN SimpleFail("Transfer not found", stored)
        ELSE IF Contains(contract.pending_transfers[transfer_id].approvers,
                         caller)
        THEN SimpleFail("TransferAlreadyAuthorized", stored)
        ELSE
        LET updated ==
                [contract EXCEPT !.pending_transfers[transfer_id] =
                    [@ EXCEPT !.approvers = Append(@, caller),
                              !.approvals = @ + 1]]
            transfer == updated.pending_transfers[transfer_id]
        IN  IF transfer.approvals >= transfer.required_approvals
            THEN LET executed ==
                         contract_simple_execute_transfer_internal(
                             updated, transfer_id)
                 IN  IF executed.err = "Ok"
                     THEN SimpleOk(stored)
                     ELSE SimpleFail(executed.err, stored)
            ELSE SimpleOk(Some(updated))

contract_simple_add_funds(stored, from, amount) ==
    IF amount <= 0 THEN SimpleFail("Amount must be positive", stored)
    ELSE IF stored = None
    THEN SimpleFail("Contract not initialized", stored)
    ELSE SimpleOk(Some([stored[1] EXCEPT !.total_balance = @ + amount]))

contract_simple_emergency_shutdown(stored) ==
    IF stored = None THEN SimpleFail("Contract not initialized", stored)
    ELSE IF ContractAddress # stored[1].owner
    THEN SimpleFail("Unauthorized", stored)
    ELSE SimpleOk(Some([stored[1] EXCEPT !.emergency_shutdown = TRUE]))

contract_simple_disable_emergency_shutdown(stored) ==
    IF stored = None THEN SimpleFail("Contract not initialized", stored)
    ELSE IF ContractAddress # stored[1].owner
    THEN SimpleFail("Unauthorized", stored)
    ELSE SimpleOk(Some([stored[1] EXCEPT !.emergency_shutdown = FALSE]))

\* the treasury of treasury/contract.rs as its constructor leaves it, with
\* the owner as the only administrator
ContractConstructed ==
    /\ pending_transfers = <<>>
    /\ stats = TreasuryStats_new
    /\ owner = 1
    /\ authorized_admins = <<1>>
    /\ fund_allocation = DefaultFundAllocation
    /\ emergency_shutdown = FALSE
    /\ max_transfer_amount = DefaultMaxTransferAmount
    /\ emergency_cooldown = DefaultEmergencyCooldown
    /\ now = 0
    /\ executed_log = <<>>

\* owner and initial_admins of the constructor: the contract's own address
\* or account 1 as owner; the own address listed, alone or with account 1,
\* or not listed
SimpleOwners == {1, ContractAddress}

SimpleAdminLists == {<<ContractAddress>>, <<1, ContractAddress>>, <<1>>}

SimpleAmounts == {0, SmallAmount, LargeAmount}

SimpleRequired == {0, 1, 2}

InitContractSimple ==
    /\ ContractConstructed
    /\ TREASURY \in { contract_simple_constructor(o, initial_admins) :
                          o \in SimpleOwners,
                          initial_admins \in SimpleAdminLists }
    /\ instance = [transfers |-> None, stats |-> None]
    /\ sequence = 0

InvokeSimple(r) ==
    /\ TREASURY' = r.stored
    /\ UNCHANGED <<contractVars, now, executed_log, instance, sequence>>

SimpleSubmitTransfer ==
    \E id \in FrameIds, amount \in SimpleAmounts,
       required_approvals \in SimpleRequired, is_emergency \in BOOLEAN :
        InvokeSimple(contract_simple_submit_transfer(
            TREASURY, id, Recipient, amount, required_approvals,
            is_emergency, now))

SimpleApproveTransfer ==
    \E id \in FrameIds :
        InvokeSimple(contract_simple_approve_transfer(TREASURY, id))

\* deposits until the balance covers MaxFunds small transfers
SimpleAddFunds ==
    \E amount \in {0, SmallAmount} :
        /\ TREASURY # None
        /\ TREASURY[1].total_balance + amount <= MaxFunds * SmallAmount
        /\ InvokeSimple(contract_simple_add_funds(TREASURY, Recipient,
                                                  amount))

SimpleEmergencyShutdown ==
    InvokeSimple(contract_simple_emergency_shutdown(TREASURY))

SimpleDisableEmergencyShutdown ==
    InvokeSimple(contract_simple_disable_emergency_shutdown(TREASURY))

NextContractSimple ==
    \/ SimpleSubmitTransfer
    \/ SimpleApproveTransfer
    \/ SimpleAddFunds
    \/ SimpleEmergencyShutdown
    \/ SimpleDisableEmergencyShutdown

SpecContractSimple == InitContractSimple /\ [][NextContractSimple]_vars

---------------------------------------------------------------------------
(* treasury_simple.rs: the treasury without constructor.  Its instance     *)
(* storage holds the map "transfers" and the statistics "stats"; an entry  *)
(* point that finds a key absent works on the default value.               *)

DefaultSimpleStats ==
    [total_balance |-> 0, pending_transfers |-> 0,
     completed_transfers |-> 0, total_transferred |-> 0]

unwrap_or(opt, default) == IF opt = None THEN default ELSE opt[1]

saturating_sub(a, b) == IF a >= b THEN a - b ELSE 0

\* Bytes::from_array of the four bytes of the ledger sequence number, the
\* low byte first
sequence_transfer_id(seq) ==
    <<seq % 256, (seq \div 256) % 256, (seq \div (256 * 256)) % 256,
      (seq \div (256 * 256 * 256)) % 256>>

treasury_simple_create_transfer(inst, seq, from_address, to_address, amount, memo, t) ==
    LET transfer_id == sequence_transfer_id(seq)
        transfer == [transfer_id |-> transfer_id,
                     from_address |-> from_address,
                     to_address |-> to_address,
                     amount |-> amount,
                     status |-> "Pending",
                     created_at |-> t,
                     memo |-> memo]
        transfers == unwrap_or(inst.transfers, <<>>)
        s == unwrap_or(inst.stats, DefaultSimpleStats)
    IN  [ret |-> transfer_id,
         instance |->
             [transfers |-> Some(MapSet(transfers, transfer_id, transfer)),
              stats |-> Some([s EXCEPT !.pending_transfers = @ + 1])]]

treasury_simple_approve_transfer(inst, transfer_id) ==
    LET transfers == unwrap_or(inst.transfers, <<>>)
        s == unwrap_or(inst.stats, DefaultSimpleStats)
    IN  IF transfer_id \in DOMAIN transfers
        THEN [ret |-> TRUE,
              instance |->
                  [transfers |->
                       Some([transfers EXCEPT
                                ![transfer_id].status = "Approved"]),
                   stats |->
                       Some([s EXCEPT !.pending_transfers =
                                          saturating_sub(@, 1)])]]
        ELSE [ret |-> FALSE, instance |-> inst]

treasury_simple_reject_transfer(inst, transfer_id) ==
    LET transfers == unwrap_or(inst.transfers, <<>>)
        s == unwrap_or(inst.stats, DefaultSimpleStats)
    IN  IF transfer_id \in DOMAIN transfers
        THEN [ret |-> TRUE,
              instance |->
                  [transfers |->
                       Some([transfers EXCEPT
                                ![transfer_id].status = "Rejected"]),
                   stats |->
                       Some([s EXCEPT !.pending_transfers =
                                          saturating_sub(@, 1)])]]
        ELSE [ret |-> FALSE, instance |-> inst]

treasury_simple_execute_transfer(inst, transfer_id) ==
    LET transfers == unwrap_or(inst.transfers, <<>>)
        s == unwrap_or(inst.stats, DefaultSimpleStats)
    IN  IF transfer_id \in DOMAIN transfers
           /\ transfers[transfer_id].status = "Approved"
        THEN [ret |-> TRUE,
              instance |->
                  [transfers |->
                       Some([transfers EXCEPT
                                ![transfer_id].status = "Completed"]),
                   stats |->
                       Some([s EXCEPT
                                !.completed_transfers = @ + 1,
                                !.total_transferred =
                                    @ + transfers[transfer_id].amount])]]
        ELSE [ret |-> FALSE, instance |-> inst]

\* the ids of the stored transfers whose status is Pending
treasury_simple_get_pending_transfers(inst) ==
    { transfer_id \in DOMAIN unwrap_or(inst.transfers, <<>>) :
        unwrap_or(inst.transfers, <<>>)[transfer_id].status = "Pending" }

treasury_simple_get_stats(inst) == unwrap_or(inst.stats, DefaultSimpleStats)

\* the sequence number of the first ledger: the lowest one, and the last
\* one whose id has a single non-zero byte
SequenceStarts == {0, 255}

\* the ids of the ledgers of the model and the id of the ledger after them
SimpleTransferIds ==
    { sequence_transfer_id(start + k) :
        start \in SequenceStarts, k \in 0 .. MaxLedgers + 1 }

InitTreasurySimple ==
    /\ ContractConstructed
    /\ TREASURY = None
    /\ instance = [transfers |-> None, stats |-> None]
    /\ sequence \in SequenceStarts

InvokeTreasurySimple(r) ==
    /\ instance' = r.instance
    /\ UNCHANGED <<contractVars, now, executed_log, TREASURY, sequence>>

CreateTransfer ==
    \E amount \in {SmallAmount, LargeAmount} :
        /\ treasury_simple_get_stats(instance).pending_transfers < MaxPending
        /\ InvokeTreasurySimple(treasury_simple_create_transfer(
               instance, sequence, 1, Recipient, amount, "memo", now))

SimpleApprove ==
    \E id \in SimpleTransferIds :
        InvokeTreasurySimple(treasury_simple_approve_transfer(instance, id))

SimpleReject ==
    \E id \in SimpleTransferIds :
        InvokeTreasurySimple(treasury_simple_reject_transfer(instance, id))

SimpleExecute ==
    \E id \in SimpleTransferIds :
        /\ treasury_simple_get_stats(instance).completed_transfers
               < MaxCompleted
        /\ InvokeTreasurySimple(treasury_simple_execute_transfer(instance,
                                                                 id))

\* the ledger closes: the next invocations see the next sequence number and
\* a later timestamp
CloseLedger ==
    /\ \E start \in SequenceStarts :
           start <= sequence /\ sequence < start + MaxLedgers
    /\ sequence' = sequence + 1
    /\ now' = now + 1
    /\ UNCHANGED <<contractVars, executed_log, TREASURY, instance>>

NextTreasurySimple ==
    \/ CreateTransfer
    \/ SimpleApprove
    \/ SimpleReject
    \/ SimpleExecute
    \/ CloseLedger

SpecTreasurySimple == InitTreasurySimple /\ [][NextTreasurySimple]_vars

---------------------------------------------------------------------------
(* Shared vocabulary of the properties *)

Range(seq) == {seq[i] : i \in 1 .. Len(seq)}

RECURSIVE SumAmounts(_)
SumAmounts(log) ==
    IF log = <<>> THEN 0 ELSE log[1].amount + SumAmounts(Tail(log))

\* the three conditions of execution, evaluated on a stored record
QuorumMet(transfer) == transfer.approvals >= transfer.required_approvals

CooldownElapsed(transfer) ==
    transfer.is_emergency \/ now - transfer.created_at >= emergency_cooldown

BalanceCovers(transfer) == stats.total_balance >= transfer.amount

\* the call ended with the record executed
Executed(r) ==
    r.err = "Ok" /\ Len(r.done) = 1 /\ r.done[1].status = "Executed"

\* the call chained an execution, and that execution failed
ChainFailed(r) == r.attempt # None /\ r.attempt[1] # "Ok"

---------------------------------------------------------------------------
(* C1: an execution attempt ends with the record Executed if and only if,  *)
(* at that moment, approvals >= required_approvals, the record is an       *)
(* emergency or its cooldown has elapsed, and total_balance >= amount.     *)
(* Stated for explicit execute_transfer calls by authorized accounts.      *)
C1_ExecutedIffConditions ==
    \A admin \in Accounts, id \in DOMAIN pending_transfers :
        require_admin(Contract, admin) =>
            ( Executed(execute_transfer(Contract, admin, id, now))
              <=> ( QuorumMet(pending_transfers[id])
                    /\ CooldownElapsed(pending_transfers[id])
                    /\ BalanceCovers(pending_transfers[id]) ) )

(* C2: a successful execution of a transfer of amount a lowers             *)
(* total_balance by exactly a.                                             *)
C2_ExecutionDebitsBalance ==
    [][ Len(executed_log') = Len(executed_log) + 1 =>
          stats'.total_balance =
              stats.total_balance - executed_log'[Len(executed_log')].amount
      ]_vars

(* C3: an approve_transfer that brings approvals to required_approvals or  *)
(* more moves the record to Approved and attempts execution in the same    *)
(* call; with cooldown elapsed and sufficient balance the record is        *)
(* executed, leaves the pending index, total_balance drops by the amount   *)
(* and the executed counter grows by one.                                  *)
C3_ApproveAtQuorumExecutes ==
    \A admin \in Accounts, id \in DOMAIN pending_transfers :
        LET transfer == pending_transfers[id]
            r == approve_transfer(Contract, admin, id, now)
        IN ( /\ require_admin(Contract, admin)
             /\ is_pending(transfer)
             /\ ~has_approved(transfer, admin)
             /\ transfer.approvals + 1 >= transfer.required_approvals )
           => /\ r.attempt # None
              /\ ( CooldownElapsed(transfer) /\ BalanceCovers(transfer) )
                   => /\ Executed(r)
                      /\ id \notin DOMAIN r.c.pending_transfers
                      /\ r.c.stats.total_balance
                            = stats.total_balance - transfer.amount
                      /\ r.c.stats.executed_transfers
                            = stats.executed_transfers + 1

C5_ChainedExecutionAllOrNothing ==
    /\ \A admin \in Accounts, id \in TransferIds, params \in ParamsSet :
          LET r == submit_transfer(Contract, admin, id, params, now)
          IN ChainFailed(r) =>
                /\ r.err # "Ok"
                /\ r.c = Contract
                /\ r.done = <<>>
                /\ id \notin DOMAIN r.c.pending_transfers
    /\ \A admin \in Accounts, id \in TransferIds :
          LET r == approve_transfer(Contract, admin, id, now)
          IN ChainFailed(r) =>
                /\ r.err # "Ok"
                /\ r.c = Contract
                /\ r.done = <<>>
                /\ r.c.pending_transfers[id].status # "Approved"

\* past the initial state, a submit_transfer chains an execution that fails
\* on the cooldown, and another one chains one that fails on the balance
C5_Witness ==
    /\ now > 0
    /\ \E admin \in Accounts, id \in TransferIds, params \in ParamsSet :
          submit_transfer(Contract, admin, id, params, now).attempt
              = Some("panic: Transfer is within cooldown period")
    /\ \E admin \in Accounts, id \in TransferIds, params \in ParamsSet :
          submit_transfer(Contract, admin, id, params, now).attempt
              = Some("InsufficientBalance")

(* C6: every record stored in the pending index has status Pending.        *)
C6_IndexHoldsOnlyPending ==
    \A id \in DOMAIN pending_transfers :
        pending_transfers[id].status = "Pending"

(* C7: the statistics equal a full scan of the history: pending_transfers  *)
(* is the number of records in the pending index, executed_transfers the   *)
(* number of executed transfers, total_transferred the sum of their        *)
(* amounts.                                                                *)
C7_StatsEqualScan ==
    /\ stats.pending_transfers = Cardinality(DOMAIN pending_transfers)
    /\ stats.executed_transfers = Len(executed_log)
    /\ stats.total_transferred = SumAmounts(executed_log)

(* C8: a submit_transfer by the treasury owner with amount at most the     *)
(* ceiling is auto-approved and auto-executed in that call, and the record *)
(* ends Executed.  Stated for submissions that pass the other checks of    *)
(* submit_transfer, with a balance that covers the amount.                 *)
C8_OwnerSmallSubmitExecutes ==
    \A id \in TransferIds \ DOMAIN pending_transfers, params \in ParamsSet :
        ( /\ require_admin(Contract, owner)
          /\ validate_transfer_params(Contract, params) = "Ok"
          /\ ~(is_emergency_shutdown(Contract) /\ ~params.is_emergency)
          /\ params.amount <= max_transfer_amount
          /\ stats.total_balance >= params.amount )
        => Executed(submit_transfer(Contract, owner, id, params, now))

(* C9: approve_transfer by an account that already approved the record     *)
(* fails with AlreadyApproved (TransferAlreadyAuthorized) and leaves       *)
(* approvals, approvers and the rest of the state unchanged.  The records  *)
(* that approve_transfer has approved are the Pending ones.                *)
C9_SecondApprovalRejected ==
    \A admin \in Accounts, id \in DOMAIN pending_transfers :
        ( /\ require_admin(Contract, admin)
          /\ is_pending(pending_transfers[id])
          /\ Contains(pending_transfers[id].approvers, admin) )
        => LET r == approve_transfer(Contract, admin, id, now)
           IN /\ r.err = "TransferAlreadyAuthorized"
              /\ r.c = Contract
              /\ r.done = <<>>

\* two accounts have approved a Pending record, and each one's next
\* approve_transfer is refused
C9_Witness ==
    \E id \in DOMAIN pending_transfers :
        /\ is_pending(pending_transfers[id])
        /\ pending_transfers[id].approvals = 2
        /\ \A admin \in Range(pending_transfers[id].approvers) :
              approve_transfer(Contract, admin, id, now).err
                  = "TransferAlreadyAuthorized"

(* C10: for every record, 0 <= approvals <= required_approvals.            *)
C10_ApprovalsWithinRequired ==
    \A id \in DOMAIN pending_transfers :
        /\ 0 <= pending_transfers[id].approvals
        /\ pending_transfers[id].approvals
              <= pending_transfers[id].required_approvals

---------------------------------------------------------------------------
(* Vocabulary of the submission properties *)

\* the record that an accepted submit_transfer created: stored in the
\* pending index, or executed in the same call
Created(r, id) ==
    IF id \in DOMAIN r.c.pending_transfers
    THEN r.c.pending_transfers[id]
    ELSE r.done[1]

\* the outcomes of every entry point that works on stored records, called
\* in the current state
RecordCallOutcomes ==
    {approve_transfer(Contract, admin, id, now) :
        admin \in Accounts, id \in TransferIds}
    \cup {execute_transfer(Contract, admin, id, now) :
        admin \in Accounts, id \in TransferIds}
    \cup {reject_transfer(Contract, admin, id) :
        admin \in Accounts, id \in TransferIds}
    \cup {cancel_transfer(Contract, admin, id) :
        admin \in Accounts, id \in TransferIds}

\* the outcomes of the ledger and owner entry points in the current state
SettingCallOutcomes ==
    {add_funds(Contract, Recipient, amount) : amount \in FundAmounts}
    \cup {set_emergency_shutdown(Contract, caller, flag) :
        caller \in Accounts, flag \in BOOLEAN}
    \cup {update_fund_allocation(Contract, caller, allocation) :
        caller \in Accounts, allocation \in AllocationValues}
    \cup {update_max_transfer_amount(Contract, caller, amount) :
        caller \in Accounts, amount \in CeilingValues}
    \cup {update_emergency_cooldown(Contract, caller, cooldown) :
        caller \in Accounts, cooldown \in CooldownValues}

(* C11: a transfer submitted without an override and not as an emergency   *)
(* gets required_approvals equal to the number of authorized               *)
(* administrators at the submission, and no later call changes the         *)
(* required_approvals or the is_emergency of a record that it keeps.       *)
(* authorized_admins lists distinct accounts.                              *)
C11_RequiredApprovalsFixedAtSubmit ==
    /\ \A admin \in Accounts, id \in TransferIds, params \in ParamsSet :
          LET r == submit_transfer(Contract, admin, id, params, now)
          IN ( /\ r.err = "Ok"
               /\ params.required_approvals = None
               /\ ~params.is_emergency )
             => Created(r, id).required_approvals
                    = Cardinality(Range(authorized_admins))
    /\ \A r \in RecordCallOutcomes \cup SettingCallOutcomes :
          \A id \in DOMAIN pending_transfers \cap DOMAIN r.c.pending_transfers :
              /\ r.c.pending_transfers[id].required_approvals
                    = pending_transfers[id].required_approvals
              /\ r.c.pending_transfers[id].is_emergency
                    = pending_transfers[id].is_emergency

\* a regular transfer submitted without override among three administrators
\* is kept with required_approvals 3 after two approvals and a clock step
C11_Witness ==
    \E id \in DOMAIN pending_transfers :
        /\ Len(authorized_admins) = 3
        /\ ~pending_transfers[id].is_emergency
        /\ pending_transfers[id].required_approvals = 3
        /\ pending_transfers[id].approvals = 2
        /\ now > pending_transfers[id].created_at

\* the ceiling of x / 2
CeilHalf(x) == x - (x \div 2)

(* C12: the required_approvals stored for an emergency transfer is         *)
(* ceil(ceil(n / 2) / 2) without an override, n being the number of        *)
(* administrators, and ceil(k / 2) with an override k; for a non-emergency *)
(* transfer with an override k it is exactly k.  So an emergency transfer  *)
(* without override needs one approval whenever n <= 4.                    *)
C12_EmergencyQuorumHalvedTwice ==
    \A admin \in QuorumAccounts, id \in TransferIds, params \in QuorumParams :
        LET r == submit_transfer(Contract, admin, id, params, now)
            n == Cardinality(Range(authorized_admins))
            k == params.required_approvals
        IN r.err = "Ok" =>
            /\ (params.is_emergency /\ k = None)
                  => Created(r, id).required_approvals = CeilHalf(CeilHalf(n))
            /\ (params.is_emergency /\ k # None)
                  => Created(r, id).required_approvals = CeilHalf(k[1])
            /\ (~params.is_emergency /\ k # None)
                  => Created(r, id).required_approvals = k[1]
            /\ (params.is_emergency /\ k = None /\ n <= 4)
                  => Created(r, id).required_approvals = 1

\* among five administrators an emergency submission without override is
\* accepted with required_approvals 2, one with override 5 is accepted with
\* 3, and the stored record is an emergency whose override 5 was halved
C12_Witness ==
    /\ Len(authorized_admins) = 5
    /\ \E id \in DOMAIN pending_transfers :
          /\ pending_transfers[id].is_emergency
          /\ pending_transfers[id].required_approvals = 3
    /\ \E admin \in QuorumAccounts, id \in TransferIds :
          LET c0 == reject_transfer(Contract, admin, id).c
              r1 == submit_transfer(c0, admin, id,
                        MkParams(Recipient, LargeAmount, None, TRUE), now)
              r2 == submit_transfer(c0, admin, id,
                        MkParams(Recipient, LargeAmount, Some(5), TRUE), now)
          IN /\ r1.err = "Ok" /\ Created(r1, id).required_approvals = 2
             /\ r2.err = "Ok" /\ Created(r2, id).required_approvals = 3

(* C13: every record has required_approvals >= 1: a submit_transfer with   *)
(* an override below 1 is rejected, and no accepted submission stores      *)
(* required_approvals = 0.                                                 *)
C13_RequiredApprovalsAtLeastOne ==
    /\ \A id \in DOMAIN pending_transfers :
          pending_transfers[id].required_approvals >= 1
    /\ \A admin \in QuorumAccounts, id \in TransferIds, params \in QuorumParams :
          (params.required_approvals # None /\ params.required_approvals[1] < 1)
          => submit_transfer(Contract, admin, id, params, now).err # "Ok"

(* C14: total_balance >= 0 in every state reachable by add_funds and       *)
(* execution calls, and after every such call made in a reachable state.   *)
C14_BalanceNeverNegative ==
    /\ stats.total_balance >= 0
    /\ \A r \in RecordCallOutcomes \cup SettingCallOutcomes :
          r.c.stats.total_balance >= 0
    /\ \A admin \in Accounts, id \in TransferIds, params \in ParamsSet :
          submit_transfer(Contract, admin, id, params, now)
              .c.stats.total_balance >= 0

\* a deposit was made and a transfer was executed from it; add_funds with a
\* negative amount is refused
C14_Witness ==
    /\ Len(executed_log) > 0
    /\ stats.total_balance >= executed_log[1].amount
    /\ \E amount \in FundAmounts :
          amount < 0 /\ add_funds(Contract, Recipient, amount).err # "Ok"

(* C15: execute_transfer on a record whose amount exceeds total_balance    *)
(* fails with InsufficientBalance and leaves the balance, the record and   *)
(* the statistics unchanged, and the same call succeeds once add_funds has *)
(* raised the balance.  Stated for records that meet the other two         *)
(* conditions of execution (quorum and cooldown).                          *)
C15_InsufficientBalanceThenRetry ==
    \A admin \in Accounts, id \in DOMAIN pending_transfers :
        ( /\ require_admin(Contract, admin)
          /\ QuorumMet(pending_transfers[id])
          /\ CooldownElapsed(pending_transfers[id])
          /\ ~BalanceCovers(pending_transfers[id]) )
        => LET r == execute_transfer(Contract, admin, id, now)
               funded == add_funds(Contract, Recipient, LargeAmount).c
           IN /\ r.err = "InsufficientBalance"
              /\ r.c = Contract
              /\ Executed(execute_transfer(funded, admin, id, now))

\* the call ended without any effect
Refused(r) == r.err # "Ok" /\ r.c = Contract /\ r.done = <<>>

\* the record has not yet waited for the cooldown at time t
InsideCooldown(transfer, t) ==
    ~transfer.is_emergency /\ t - transfer.created_at < emergency_cooldown

(* C16: no non-emergency transfer is executed while now - created_at is    *)
(* below the cooldown: an execution attempted before that fails without    *)
(* changing state, whether it is an explicit execute_transfer, the         *)
(* execution chained from approve_transfer or the one chained from the     *)
(* owner's submit_transfer.                                                *)
C16_NoExecutionInsideCooldown ==
    /\ \A admin \in Accounts, id \in DOMAIN pending_transfers :
          InsideCooldown(pending_transfers[id], now) =>
              LET e == execute_transfer(Contract, admin, id, now)
                  a == approve_transfer(Contract, admin, id, now)
              IN /\ Refused(e)
                 /\ ~Executed(a)
                 /\ a.attempt # None => Refused(a)
    /\ \A admin \in Accounts, id \in TransferIds, params \in ParamsSet :
          LET r == submit_transfer(Contract, admin, id, params, now)
          IN /\ (Executed(r) /\ ~r.done[1].is_emergency) =>
                    r.done[1].executed_at[1] - r.done[1].created_at
                        >= emergency_cooldown
             /\ (~params.is_emergency /\ emergency_cooldown > 0) =>
                    /\ ~Executed(r)
                    /\ r.attempt # None => Refused(r)

\* with a funded treasury and the cooldown in force, the owner's regular
\* submission is refused by the cooldown of its chained execution while the
\* same submission as an emergency is executed
C16_Witness ==
    /\ now > 0
    /\ emergency_cooldown > 0
    /\ stats.total_balance >= SmallAmount
    /\ \E id \in TransferIds, required \in {None, Some(2)} :
          /\ submit_transfer(Contract, owner, id,
                 MkParams(Recipient, SmallAmount, required, FALSE), now).attempt
                = Some("panic: Transfer is within cooldown period")
          /\ Executed(submit_transfer(Contract, owner, id,
                 MkParams(Recipient, SmallAmount, required, TRUE), now))

(* C17: execute_transfer on a record that is still Pending, its quorum not *)
(* met, fails with the not-authorized error (TransferNotAuthorized) and    *)
(* changes nothing.                                                        *)
C17_ExecutePendingRefused ==
    \A admin \in Accounts, id \in DOMAIN pending_transfers :
        ( /\ require_admin(Contract, admin)
          /\ is_pending(pending_transfers[id])
          /\ ~QuorumMet(pending_transfers[id]) )
        => LET r == execute_transfer(Contract, admin, id, now)
           IN r.err = "TransferNotAuthorized" /\ Refused(r)

\* a funded treasury holds a Pending emergency record with one approval of
\* the two it requires, and an administrator's execute_transfer is refused
C17_Witness ==
    \E admin \in Accounts, id \in DOMAIN pending_transfers :
        /\ require_admin(Contract, admin)
        /\ is_pending(pending_transfers[id])
        /\ pending_transfers[id].approvals = 1
        /\ pending_transfers[id].required_approvals = 2
        /\ CooldownElapsed(pending_transfers[id])
        /\ BalanceCovers(pending_transfers[id])
        /\ execute_transfer(Contract, admin, id, now).err
              = "TransferNotAuthorized"

(* C18: cancel_transfer on a Pending record by an authorized caller        *)
(* succeeds if and only if the caller is the account that submitted the    *)
(* record or the treasury owner; any other caller gets Unauthorized and    *)
(* the record stays Pending.  Stated for a cancel_transfer that follows    *)
(* the submit_transfer of the record.                                      *)
C18_SubmitterOrOwnerCancels ==
    \A submitter \in Accounts, caller \in Accounts,
       id \in TransferIds, params \in ParamsSet :
        LET s == submit_transfer(Contract, submitter, id, params, now)
            r == cancel_transfer(s.c, caller, id)
        IN ( /\ s.err = "Ok"
             /\ id \in DOMAIN s.c.pending_transfers
             /\ is_pending(s.c.pending_transfers[id])
             /\ require_admin(Contract, caller) )
           => /\ r.err = "Ok" <=> caller \in {submitter, owner}
              /\ caller \notin {submitter, owner} =>
                    /\ r.err = "Unauthorized"
                    /\ r.c = s.c

(* C19: after cancel_transfer succeeds on a Pending record, the record is  *)
(* absent from the pending index, and a following approve_transfer on the  *)
(* same id fails with InvalidState.                                        *)
C19_ApproveAfterCancelInvalidState ==
    \A canceller \in Accounts, approver \in Accounts,
       id \in DOMAIN pending_transfers :
        LET r == cancel_transfer(Contract, canceller, id)
        IN (r.err = "Ok" /\ require_admin(Contract, approver))
           => /\ id \notin DOMAIN r.c.pending_transfers
              /\ approve_transfer(r.c, approver, id, now).err = "InvalidState"

(* C20: while the emergency-shutdown flag is set, every submit_transfer    *)
(* with is_emergency = false fails with InvalidState and creates no        *)
(* record, and a submit_transfer with is_emergency = true that passes the  *)
(* other checks is accepted as it is with the flag clear.  Stated for      *)
(* authorized callers (another caller gets Unauthorized first).            *)
C20_ShutdownBlocksRegularSubmit ==
    \A admin \in Accounts, id \in TransferIds, params \in ParamsSet :
        (emergency_shutdown /\ require_admin(Contract, admin)) =>
            LET r == submit_transfer(Contract, admin, id, params, now)
                clear == submit_transfer(
                             [Contract EXCEPT !.emergency_shutdown = FALSE],
                             admin, id, params, now)
            IN /\ ~params.is_emergency =>
                     r.err = "InvalidState" /\ Refused(r)
               /\ params.is_emergency =>
                     /\ r.err = clear.err
                     /\ r.done = clear.done
                     /\ r.c.pending_transfers = clear.c.pending_transfers
                     /\ r.c.stats = clear.c.stats
                     /\ r.c.emergency_shutdown
               /\ ( /\ params.is_emergency
                    /\ id \notin DOMAIN pending_transfers
                    /\ validate_transfer_params(Contract, params) = "Ok"
                    /\ r.attempt = None )
                  => /\ r.err = "Ok"
                     /\ id \in DOMAIN r.c.pending_transfers

\* under the shutdown a funded treasury refuses an administrator's regular
\* submission, stores the same administrator's emergency submission, and
\* executes the owner's emergency submission
C20_Witness ==
    /\ emergency_shutdown
    /\ stats.total_balance >= SmallAmount
    /\ \E admin \in Accounts \ {owner}, id \in TransferIds :
          /\ submit_transfer(Contract, admin, id,
                 MkParams(Recipient, SmallAmount, None, FALSE), now).err
                = "InvalidState"
          /\ LET r == submit_transfer(Contract, admin, id,
                          MkParams(Recipient, SmallAmount, None, TRUE), now)
             IN r.err = "Ok" /\ is_pending(Created(r, id))
          /\ Executed(submit_transfer(Contract, owner, id,
                 MkParams(Recipient, SmallAmount, None, TRUE), now))

\* two outcomes that differ at most in the emergency-shutdown flag of the
\* state they leave
SameButFlag(r1, r2) ==
    /\ r1.err = r2.err
    /\ r1.done = r2.done
    /\ r1.attempt = r2.attempt
    /\ [r1.c EXCEPT !.emergency_shutdown = FALSE]
          = [r2.c EXCEPT !.emergency_shutdown = FALSE]

(* C21: the outcome of approve_transfer, execute_transfer, reject_transfer *)
(* and cancel_transfer on a submitted record does not depend on the        *)
(* emergency-shutdown flag: the state with the flag flipped gives the same *)
(* result and the same record, ledger and statistics for the same call,    *)
(* and the call leaves the flag as it was.                                 *)
C21_RecordCallsIgnoreShutdown ==
    LET flipped == [Contract EXCEPT !.emergency_shutdown = ~@]
    IN \A admin \in Accounts, id \in DOMAIN pending_transfers :
          /\ SameButFlag(approve_transfer(Contract, admin, id, now),
                         approve_transfer(flipped, admin, id, now))
          /\ SameButFlag(execute_transfer(Contract, admin, id, now),
                         execute_transfer(flipped, admin, id, now))
          /\ SameButFlag(reject_transfer(Contract, admin, id),
                         reject_transfer(flipped, admin, id))
          /\ SameButFlag(cancel_transfer(Contract, admin, id),
                         cancel_transfer(flipped, admin, id))
          /\ \A r \in RecordCallOutcomes :
                r.c.emergency_shutdown = emergency_shutdown

\* under the shutdown a Pending record with one approval is approved by a
\* second administrator, rejected, and cancelled by the owner
C21_Witness ==
    /\ emergency_shutdown
    /\ \E id \in DOMAIN pending_transfers :
          /\ is_pending(pending_transfers[id])
          /\ pending_transfers[id].approvals = 1
          /\ \E admin \in Accounts :
                /\ approve_transfer(Contract, admin, id, now).err = "Ok"
                /\ reject_transfer(Contract, admin, id).err = "Ok"
          /\ cancel_transfer(Contract, owner, id).err = "Ok"

(* C22: submit_transfer, approve_transfer, execute_transfer,               *)
(* reject_transfer and cancel_transfer called by an account that is not in *)
(* authorized_admins fail with Unauthorized and change no state, also when *)
(* that account is the treasury owner.                                     *)
C22_OutsidersUnauthorized ==
    \A caller \in Accounts, id \in TransferIds :
        ~Contains(authorized_admins, caller) =>
            /\ \A params \in ParamsSet :
                  LET r == submit_transfer(Contract, caller, id, params, now)
                  IN r.err = "Unauthorized" /\ Refused(r)
            /\ \A r \in { approve_transfer(Contract, caller, id, now),
                          execute_transfer(Contract, caller, id, now),
                          reject_transfer(Contract, caller, id),
                          cancel_transfer(Contract, caller, id) } :
                  r.err = "Unauthorized" /\ Refused(r)

\* the owner is not an administrator, the treasury is funded and holds a
\* Pending record, and the owner's five calls are refused
C22_Witness ==
    /\ ~Contains(authorized_admins, owner)
    /\ stats.total_balance > 0
    /\ \E id \in DOMAIN pending_transfers :
          /\ is_pending(pending_transfers[id])
          /\ cancel_transfer(Contract, owner, id).err = "Unauthorized"
          /\ approve_transfer(Contract, owner, id, now).err = "Unauthorized"

(* C23: submit_transfer fails and leaves the pending index, the ledger and *)
(* the statistics unchanged when the id is already in use, when            *)
(* amount <= 0, when the amount exceeds the ceiling and is_emergency is    *)
(* false (this one with InvalidInput), or when the destination is the zero *)
(* account; an emergency submission above the ceiling is accepted.  Stated *)
(* for authorized callers whose submission the shutdown does not block.    *)
C23_SubmitRejections ==
    \A admin \in Accounts, id \in TransferIds, params \in ParamsSet :
        ( /\ require_admin(Contract, admin)
          /\ ~(is_emergency_shutdown(Contract) /\ ~params.is_emergency) )
        => LET r == submit_transfer(Contract, admin, id, params, now)
               aboveCeiling == params.amount > max_transfer_amount
           IN /\ ( \/ id \in DOMAIN pending_transfers
                   \/ params.amount <= 0
                   \/ (aboveCeiling /\ ~params.is_emergency)
                   \/ params.to = ZeroAddress )
                 => Refused(r)
              /\ ( /\ id \notin DOMAIN pending_transfers
                   /\ aboveCeiling /\ ~params.is_emergency )
                 => r.err = "InvalidInput"
              /\ ( /\ id \notin DOMAIN pending_transfers
                   /\ aboveCeiling /\ params.is_emergency
                   /\ params.to # ZeroAddress )
                 => /\ r.err = "Ok"
                    /\ id \in DOMAIN r.c.pending_transfers

\* the outcomes of the calls that can end a record, made in the current
\* state on the id
EndingOutcomes(id) ==
    {execute_transfer(Contract, admin, id, now) : admin \in Accounts}
    \cup {reject_transfer(Contract, admin, id) : admin \in Accounts}
    \cup {cancel_transfer(Contract, admin, id) : admin \in Accounts}
    \cup {approve_transfer(Contract, admin, id, now) : admin \in Accounts}
    \cup {submit_transfer(Contract, admin, id, params, now) :
            admin \in Accounts, params \in ParamsSet}

\* the states in which a later call can find the contract after the state
\* c: c itself, and c after one more submit_transfer
LaterStates(c, id) ==
    {c} \cup {submit_transfer(c, admin, id, params, now).c :
                admin \in Accounts, params \in ParamsSet}

(* C24: Pending and Approved are the only non-terminal states: once a      *)
(* record is Executed, Rejected or Cancelled, no later approve_transfer,   *)
(* execute_transfer, reject_transfer or cancel_transfer on its id          *)
(* succeeds, and executed_at is set exactly when the record is Executed.   *)
C24_TerminalIsFinal ==
    /\ \A id \in DOMAIN pending_transfers :
          /\ pending_transfers[id].status \in {"Pending", "Approved"}
          /\ pending_transfers[id].executed_at = None
    /\ \A id \in TransferIds : \A r \in EndingOutcomes(id) :
          (r.err = "Ok" /\ r.done # <<>>) =>
              /\ r.done[1].status \in {"Executed", "Rejected", "Cancelled"}
              /\ r.done[1].executed_at # None
                    <=> r.done[1].status = "Executed"
              /\ r.done[1].status = "Executed"
                    => r.done[1].executed_at = Some(now)
              /\ \A c \in LaterStates(r.c, id), caller \in Accounts :
                    /\ approve_transfer(c, caller, id, now).err # "Ok"
                    /\ execute_transfer(c, caller, id, now).err # "Ok"
                    /\ reject_transfer(c, caller, id).err # "Ok"
                    /\ cancel_transfer(c, caller, id).err # "Ok"

---------------------------------------------------------------------------
(* Vocabulary of the ledger properties *)

PercentageSum(allocation) ==
    allocation.insurance_percentage + allocation.operational_percentage
        + allocation.emergency_percentage

\* floor(total * percentage / 100): the one q with
\* 100 * q <= total * percentage < 100 * (q + 1), looked for next to the
\* quotient
Share(total, percentage) ==
    LET near == (total * percentage) \div 100
    IN CHOOSE q \in near - 1 .. near + 1 :
          100 * q <= total * percentage /\ total * percentage < 100 * (q + 1)

\* the sub-fund balances of s are the shares of its total_balance
SubFundsCurrent(s, allocation) ==
    /\ s.insurance_fund_balance
          = Share(s.total_balance, allocation.insurance_percentage)
    /\ s.operational_fund_balance
          = Share(s.total_balance, allocation.operational_percentage)
    /\ s.emergency_fund_balance
          = Share(s.total_balance, allocation.emergency_percentage)

SubFundSum(s) ==
    s.insurance_fund_balance + s.operational_fund_balance
        + s.emergency_fund_balance

\* the outcomes of the ledger calls of the ledger specification
LedgerOutcomes ==
    {add_funds(Contract, Recipient, amount) : amount \in LedgerAmounts}
    \cup {update_fund_allocation(Contract, caller, allocation) :
            caller \in Accounts, allocation \in LedgerAllocations}
    \cup {submit_transfer(Contract, owner, id,
              MkParams(Recipient, SmallAmount, None, TRUE), now) :
            id \in TransferIds}

(* C25: after every committed operation each sub-fund balance equals       *)
(* floor(total_balance * percentage / 100) for the stored total_balance    *)
(* and allocation: the insurance, operational and emergency balances are   *)
(* never stale after add_funds, an executed transfer or                    *)
(* update_fund_allocation.                                                 *)
C25_SubFundsNeverStale ==
    /\ SubFundsCurrent(stats, fund_allocation)
    /\ \A r \in LedgerOutcomes :
          SubFundsCurrent(r.c.stats, r.c.fund_allocation)

\* a deposit, an execution and a new allocation have been committed
C25_Witness ==
    /\ stats.total_balance > SmallAmount
    /\ Len(executed_log) > 0
    /\ fund_allocation # DefaultFundAllocation
    /\ stats.insurance_fund_balance > 0
    /\ SubFundSum(stats) < stats.total_balance

(* C26: after a rebalance with percentages that sum to 100 and             *)
(* total_balance >= 0, the three sub-fund balances sum to at most          *)
(* total_balance and to at least total_balance - 2, and no sub-fund        *)
(* balance exceeds total_balance.                                          *)
C26_RebalanceDriftBounded ==
    \A allocation \in LedgerAllocations :
        (PercentageSum(allocation) = 100 /\ stats.total_balance >= 0) =>
            LET s == rebalance_funds(stats, allocation)
            IN /\ SubFundSum(s) <= s.total_balance
               /\ SubFundSum(s) >= s.total_balance - 2
               /\ s.insurance_fund_balance <= s.total_balance
               /\ s.operational_fund_balance <= s.total_balance
               /\ s.emergency_fund_balance <= s.total_balance
               /\ s.total_balance = stats.total_balance

\* the stored sub-funds, rebalanced by update_fund_allocation after the
\* deposits, are two units short of the balance
C26_Witness ==
    /\ stats.total_balance > SmallAmount
    /\ fund_allocation # DefaultFundAllocation
    /\ stats = rebalance_funds(stats, fund_allocation)
    /\ SubFundSum(stats) = stats.total_balance - 2

(* C27: the three percentages of the stored fund allocation sum to 100 in  *)
(* every reachable state: update_fund_allocation with percentages that do  *)
(* not sum to 100 fails and leaves the allocation and the sub-fund         *)
(* balances unchanged, and with percentages that sum to 100 it replaces    *)
(* the allocation and recomputes the sub-fund balances.  The caller is the *)
(* owner.                                                                  *)
C27_AllocationSumsTo100 ==
    /\ PercentageSum(fund_allocation) = 100
    /\ \A allocation \in LedgerAllocations :
          LET r == update_fund_allocation(Contract, owner, allocation)
          IN IF PercentageSum(allocation) # 100
             THEN Refused(r)
             ELSE /\ r.err = "Ok"
                  /\ r.c.fund_allocation = allocation
                  /\ SubFundsCurrent(r.c.stats, allocation)
                  /\ r.c.stats.total_balance = stats.total_balance
                  /\ r.c.pending_transfers = pending_transfers

\* the owner has replaced the default allocation in a funded treasury, and
\* an allocation that sums to 99 is refused
C27_Witness ==
    /\ fund_allocation # DefaultFundAllocation
    /\ stats.total_balance > 0
    /\ stats.operational_fund_balance > stats.insurance_fund_balance
    /\ \E allocation \in LedgerAllocations :
          /\ PercentageSum(allocation) = 99
          /\ update_fund_allocation(Contract, owner, allocation).err
                = "panic: Allocation percentages must sum to 100"

---------------------------------------------------------------------------
(* Vocabulary of the frame properties *)

\* every record but the one under id is the same in the two indexes
OthersUntouched(before, after, id) ==
    /\ DOMAIN after \ {id} = DOMAIN before \ {id}
    /\ \A other \in DOMAIN before \ {id} : after[other] = before[other]

\* the effects of an execution that started with the statistics s0 and the
\* index p0 and ended with the outcome r
ExecutionEffects(s0, p0, r, id) ==
    /\ id \notin DOMAIN r.c.pending_transfers
    /\ r.done[1].transfer_id = id
    /\ r.done[1].status = "Executed"
    /\ r.done[1].executed_at = Some(now)
    /\ r.c.stats.pending_transfers = s0.pending_transfers - 1
    /\ r.c.stats.executed_transfers = s0.executed_transfers + 1
    /\ r.c.stats.total_transferred = s0.total_transferred + r.done[1].amount
    /\ OthersUntouched(p0, r.c.pending_transfers, id)

(* C28: a successful execution removes the record from the pending index,  *)
(* sets its status to Executed, stamps executed_at with the current time,  *)
(* lowers the pending counter by exactly 1, raises the executed counter by *)
(* exactly 1 and total_transferred by the record's amount, and leaves      *)
(* every other record untouched.  The execution chained from               *)
(* submit_transfer starts after the submission has raised the pending      *)
(* counter by 1.                                                           *)
C28_ExecutionEffects ==
    \A admin \in Accounts, id \in FrameIds :
        /\ \A params \in FrameParams :
              LET r == submit_transfer(Contract, admin, id, params, now)
              IN Executed(r) =>
                    ExecutionEffects(increment_pending_transfers(stats),
                                     pending_transfers, r, id)
        /\ \A r \in { approve_transfer(Contract, admin, id, now),
                      execute_transfer(Contract, admin, id, now) } :
              Executed(r) =>
                  ExecutionEffects(stats, pending_transfers, r, id)

\* one transfer has been executed at a ledger time after 0 while another
\* record stays in the index, and the statistics count the execution
C28_Witness ==
    /\ now > 0
    /\ Len(executed_log) = 1
    /\ stats.executed_transfers = 1
    /\ stats.total_transferred = executed_log[1].amount
    /\ \E other \in DOMAIN pending_transfers :
          /\ other # executed_log[1].transfer_id
          /\ pending_transfers[other].approvals > 0

(* C29: a successful reject_transfer or cancel_transfer on a Pending       *)
(* record removes the record from the pending index and lowers the pending *)
(* counter by exactly 1, leaving total_balance, the sub-fund balances, the *)
(* executed counter, total_transferred and every other record unchanged;   *)
(* both fail with InvalidState on a record that is not Pending.            *)
C29_RejectCancelFrame ==
    \A admin \in Accounts, id \in DOMAIN pending_transfers :
        \A r \in { reject_transfer(Contract, admin, id),
                   cancel_transfer(Contract, admin, id) } :
            /\ (is_pending(pending_transfers[id]) /\ r.err = "Ok") =>
                  /\ id \notin DOMAIN r.c.pending_transfers
                  /\ r.c.stats.pending_transfers = stats.pending_transfers - 1
                  /\ r.c.stats
                        = [stats EXCEPT !.pending_transfers =
                                            r.c.stats.pending_transfers]
                  /\ OthersUntouched(pending_transfers,
                                     r.c.pending_transfers, id)
            /\ ( /\ ~is_pending(pending_transfers[id])
                 /\ require_admin(Contract, admin) )
               => r.err = "InvalidState" /\ Refused(r)

(* C30: an approve_transfer that leaves approvals below required_approvals *)
(* adds the caller to approvers, raises approvals by exactly 1, keeps the  *)
(* record Pending and in the pending index, and leaves total_balance and   *)
(* all statistics counters unchanged; in every reachable state approvals   *)
(* equals the number of distinct accounts in approvers.                    *)
C30_ApprovalBelowQuorum ==
    /\ \A id \in DOMAIN pending_transfers :
          pending_transfers[id].approvals
              = Cardinality(Range(pending_transfers[id].approvers))
    /\ \A admin \in Accounts, id \in DOMAIN pending_transfers :
          LET r == approve_transfer(Contract, admin, id, now)
              before == pending_transfers[id]
          IN ( /\ r.err = "Ok"
               /\ id \in DOMAIN r.c.pending_transfers
               /\ r.c.pending_transfers[id].approvals
                     < r.c.pending_transfers[id].required_approvals )
             => LET after == r.c.pending_transfers[id]
                IN /\ after.approvers = Append(before.approvers, admin)
                   /\ ~Contains(before.approvers, admin)
                   /\ after.approvals = before.approvals + 1
                   /\ after.status = "Pending"
                   /\ after = [before EXCEPT !.approvers = after.approvers,
                                             !.approvals = after.approvals]
                   /\ r.c.stats = stats
                   /\ r.done = <<>>

\* a Pending record that requires three approvals holds the approval of one
\* administrator, and the approval of another leaves it below its quorum
C30_Witness ==
    \E admin \in Accounts, id \in DOMAIN pending_transfers :
        /\ pending_transfers[id].required_approvals = 3
        /\ pending_transfers[id].approvals = 1
        /\ ~Contains(pending_transfers[id].approvers, admin)
        /\ LET r == approve_transfer(Contract, admin, id, now)
           IN /\ r.err = "Ok"
              /\ r.c.pending_transfers[id].approvals = 2
              /\ is_pending(r.c.pending_transfers[id])

(* C31: add_funds with amount > 0 raises total_balance by exactly amount,  *)
(* recomputes the sub-fund balances, and leaves the pending index and the  *)
(* pending, executed and total_transferred counters unchanged; add_funds   *)
(* with amount <= 0 fails and changes nothing.                             *)
C31_AddFundsEffects ==
    \A amount \in FundAmounts \cup LedgerAmounts :
        LET r == add_funds(Contract, Recipient, amount)
        IN IF amount <= 0
           THEN Refused(r)
           ELSE /\ r.err = "Ok"
                /\ r.c.stats.total_balance = stats.total_balance + amount
                /\ SubFundsCurrent(r.c.stats, fund_allocation)
                /\ r.c.stats.pending_transfers = stats.pending_transfers
                /\ r.c.stats.executed_transfers = stats.executed_transfers
                /\ r.c.stats.total_transferred = stats.total_transferred
                /\ r.c = [Contract EXCEPT !.stats = r.c.stats]

\* a treasury that was funded and has executed a transfer holds a record;
\* a further deposit is accepted and a negative one is refused
C31_Witness ==
    /\ stats.total_balance > 0
    /\ stats.total_transferred > 0
    /\ stats.insurance_fund_balance > stats.operational_fund_balance
    /\ DOMAIN pending_transfers # {}
    /\ add_funds(Contract, Recipient, SmallAmount).c.stats.total_balance
          = stats.total_balance + SmallAmount
    /\ add_funds(Contract, Recipient, -LargeAmount).err # "Ok"

(* C32: emergency_shutdown, disable_emergency_shutdown,                    *)
(* update_fund_allocation, update_max_transfer_amount and                  *)
(* update_emergency_cooldown called by an account other than the treasury  *)
(* owner fail with Unauthorized and leave the shutdown flag, the           *)
(* allocation, the ceiling and the cooldown unchanged; called by the       *)
(* owner, emergency_shutdown sets the flag and disable_emergency_shutdown  *)
(* clears it.                                                              *)
C32_OwnerOnlyOperations ==
    /\ \A r \in SettingCallOutcomes
                  \ {add_funds(Contract, Recipient, amount) :
                        amount \in FundAmounts} :
          r.err = "Unauthorized" => Refused(r)
    /\ \A caller \in Accounts \ {owner} :
          /\ \A flag \in BOOLEAN :
                set_emergency_shutdown(Contract, caller, flag).err
                    = "Unauthorized"
          /\ \A allocation \in AllocationValues :
                update_fund_allocation(Contract, caller, allocation).err
                    = "Unauthorized"
          /\ \A amount \in CeilingValues :
                update_max_transfer_amount(Contract, caller, amount).err
                    = "Unauthorized"
          /\ \A cooldown \in CooldownValues :
                update_emergency_cooldown(Contract, caller, cooldown).err
                    = "Unauthorized"
    /\ \A flag \in BOOLEAN :
          LET r == set_emergency_shutdown(Contract, owner, flag)
          IN /\ r.err = "Ok"
             /\ r.c.emergency_shutdown = flag
             /\ r.c = [Contract EXCEPT !.emergency_shutdown = flag]

\* the owner has set the flag; an administrator who is not the owner cannot
\* clear it or change a setting, and the owner can clear it
C32_Witness ==
    /\ emergency_shutdown
    /\ DOMAIN pending_transfers # {}
    /\ \E caller \in Accounts \ {owner} :
          /\ require_admin(Contract, caller)
          /\ set_emergency_shutdown(Contract, caller, FALSE).err
                = "Unauthorized"
    /\ ~set_emergency_shutdown(Contract, owner, FALSE).c.emergency_shutdown

\* every call that could move the record on is refused for a reason that
\* neither the clock nor the balance changes: the record is not Pending, and
\* it is not executable
Stuck(id) ==
    \A admin \in Range(authorized_admins) :
        /\ approve_transfer(Contract, admin, id, now).err = "InvalidState"
        /\ reject_transfer(Contract, admin, id).err = "InvalidState"
        /\ cancel_transfer(Contract, admin, id).err = "InvalidState"
        /\ execute_transfer(Contract, admin, id, now).err
              = "TransferNotAuthorized"

(* C33: no reachable state holds a stuck record, a record in the pending   *)
(* index on which approve_transfer, reject_transfer and cancel_transfer    *)
(* fail because it is not Pending and execute_transfer fails because it is *)
(* not executable; in particular the owner's submission with an amount     *)
(* within the ceiling and required_approvals > 1 leaves none.              *)
C33_NoStuckRecord ==
    /\ \A id \in DOMAIN pending_transfers : ~Stuck(id)
    /\ \A id \in TransferIds, params \in ParamsSet :
          LET r == submit_transfer(Contract, owner, id, params, now)
          IN ( /\ r.err = "Ok"
               /\ params.amount <= max_transfer_amount
               /\ id \in DOMAIN r.c.pending_transfers
               /\ r.c.pending_transfers[id].required_approvals > 1 )
             => \/ is_pending(r.c.pending_transfers[id])
                \/ can_be_executed(r.c.pending_transfers[id])

(* C34: funds are conserved: total_balance equals the sum of the amounts   *)
(* accepted by add_funds minus total_transferred.  Both sides are 0 after  *)
(* construction; stated as what every call does to them: add_funds raises  *)
(* total_balance + total_transferred by the amount it accepts, and every   *)
(* other call leaves that sum as it is.                                    *)
C34_FundsConserved ==
    LET Held(s) == s.total_balance + s.total_transferred
    IN /\ \A amount \in FundAmounts :
             LET r == add_funds(Contract, Recipient, amount)
             IN Held(r.c.stats)
                   = Held(stats) + (IF r.err = "Ok" THEN amount ELSE 0)
       /\ \A r \in RecordCallOutcomes : Held(r.c.stats) = Held(stats)
       /\ \A admin \in Accounts, id \in TransferIds, params \in ParamsSet :
             Held(submit_transfer(Contract, admin, id, params, now).c.stats)
                 = Held(stats)

(* C35: a transfer id identifies at most one transfer over the whole       *)
(* history: after the record of an id has been executed, rejected or       *)
(* cancelled, a submit_transfer with the same id is refused as a duplicate *)
(* and creates no record under that id.                                    *)
C35_IdNeverReused ==
    \A id \in TransferIds : \A r \in EndingOutcomes(id) :
        (r.err = "Ok" /\ r.done # <<>>) =>
            \A admin \in Accounts, params \in ParamsSet :
                LET again == submit_transfer(r.c, admin, id, params, now)
                IN /\ again.err # "Ok"
                   /\ id \notin DOMAIN again.c.pending_transfers

\* the approval of the contract's own address would bring the stored record
\* of id to its required number of approvals
SimpleReachesQuorum(contract, id) ==
    /\ Contains(contract.authorized_admins, ContractAddress)
    /\ id \in DOMAIN contract.pending_transfers
    /\ ~Contains(contract.pending_transfers[id].approvers, ContractAddress)
    /\ contract.pending_transfers[id].approvals + 1
           >= contract.pending_transfers[id].required_approvals

(* C36: in treasury/contract_simple.rs, when an approve_transfer call      *)
(* reaches the quorum and the balance covers the amount, the stored        *)
(* total_balance after the call is lower by the amount and the transfer is *)
(* absent from the stored pending_transfers; when the balance does not     *)
(* cover the amount the call fails and the stored state, approvals         *)
(* included, is unchanged.                                                 *)
C36_QuorumExecutionPersisted ==
    TREASURY # None =>
        \A id \in FrameIds :
            SimpleReachesQuorum(TREASURY[1], id) =>
                LET contract == TREASURY[1]
                    transfer == contract.pending_transfers[id]
                    r == contract_simple_approve_transfer(TREASURY, id)
                IN  IF contract.total_balance >= transfer.amount
                    THEN /\ r.err = "Ok"
                         /\ r.stored # None
                         /\ r.stored[1].total_balance
                                = contract.total_balance - transfer.amount
                         /\ id \notin DOMAIN r.stored[1].pending_transfers
                    ELSE /\ r.err # "Ok"
                         /\ r.stored = TREASURY

\* the transfers stored by treasury_simple.rs
StoredTransfers == unwrap_or(instance.transfers, <<>>)

\* the storage after one approve_transfer or execute_transfer on id
ApproveOrExecute(inst, id) ==
    { treasury_simple_approve_transfer(inst, id).instance,
      treasury_simple_execute_transfer(inst, id).instance }

\* the storages that up to three approve_transfer and execute_transfer
\* calls on id lead to
AfterApprovesAndExecutes(inst, id) ==
    LET one == ApproveOrExecute(inst, id)
        two == UNION { ApproveOrExecute(i, id) : i \in one }
        three == UNION { ApproveOrExecute(i, id) : i \in two }
    IN  one \cup two \cup three

(* C37: in treasury_simple.rs a transfer is completed at most once and     *)
(* only from Approved: an execute_transfer that returns true found the     *)
(* transfer Approved, adds 1 to completed_transfers and the amount to      *)
(* total_transferred; on a Completed transfer execute_transfer returns     *)
(* false, and it still returns false after any further approve_transfer    *)
(* and execute_transfer calls on that transfer.                            *)
C37_CompletedAtMostOnce ==
    \A id \in SimpleTransferIds :
        LET r == treasury_simple_execute_transfer(instance, id)
            before == treasury_simple_get_stats(instance)
            after == treasury_simple_get_stats(r.instance)
        IN  /\ r.ret =>
                   /\ id \in DOMAIN StoredTransfers
                   /\ StoredTransfers[id].status = "Approved"
                   /\ after.completed_transfers
                          = before.completed_transfers + 1
                   /\ after.total_transferred
                          = before.total_transferred
                            + StoredTransfers[id].amount
            /\ (id \in DOMAIN StoredTransfers
                  /\ StoredTransfers[id].status = "Completed") =>
                   \A inst \in {instance}
                                \cup AfterApprovesAndExecutes(instance, id) :
                       ~treasury_simple_execute_transfer(inst, id).ret

(* C38: in treasury_simple.rs a rejected transfer is final: once           *)
(* reject_transfer has set a transfer to Rejected, no later sequence of    *)
(* approve_transfer and execute_transfer calls brings it to Approved or    *)
(* Completed.                                                              *)
C38_RejectedIsFinal ==
    \A id \in SimpleTransferIds :
        (id \in DOMAIN StoredTransfers
           /\ StoredTransfers[id].status = "Rejected") =>
            \A inst \in AfterApprovesAndExecutes(instance, id) :
                unwrap_or(inst.transfers, <<>>)[id].status
                    \notin {"Approved", "Completed"}

(* C39: in treasury_simple.rs, after any sequence of create_transfer,      *)
(* approve_transfer, reject_transfer and execute_transfer calls,           *)
(* stats.pending_transfers equals the number of stored transfers whose     *)
(* status is Pending, the number get_pending_transfers returns.            *)
C39_PendingCounterMatches ==
    treasury_simple_get_stats(instance).pending_transfers
        = Cardinality(treasury_simple_get_pending_transfers(instance))

(* C40: in treasury_simple.rs create_transfer never overwrites a stored    *)
(* transfer: every call, a second call at the same ledger sequence number *)
(* included, returns an id that is not stored yet and leaves one more      *)
(* stored transfer.                                                        *)
C40_CreateNeverOverwrites ==
    \A amount \in {SmallAmount, LargeAmount} :
        LET r == treasury_simple_create_transfer(
                     instance, sequence, 1, Recipient, amount, "memo", now)
        IN  /\ r.ret \notin DOMAIN StoredTransfers
            /\ Cardinality(DOMAIN unwrap_or(r.instance.transfers, <<>>))
                   = Cardinality(DOMAIN StoredTransfers) + 1

=============================================================================
